---- MODULE Spec2Model ----
(***************************************************************************)
(* A model of the ode object tree (src/src/ode.c): the heap the tree lives *)
(* in, the tree engine (ode_create, ode_add, ode_mod, ode_del) and the     *)
(* text codec (ode_serial, ode_deserial).                                  *)
(*                                                                         *)
(* The heap is a map from addresses to blocks.  A block is free, a byte    *)
(* buffer ("str": a name or a value, with its terminating 0) or an array   *)
(* of object records ("obj": a root object is an array of one).  A pointer *)
(* to an object is <<block, index>>, so that a relocated array changes the *)
(* pointers to its elements, as in the C code.                             *)
(*                                                                         *)
(* fault marks an execution that has left the defined behaviour of C       *)
(* (an access outside a live block, a free of a block that is not live):   *)
(* nothing is said about the program from there on.                        *)
(***************************************************************************)
EXTENDS Integers, Sequences, FiniteSets, TLC

\* ------------------------------------------------------------ constants
OBJ_SPEC == 124
OBJ_SEP == 59
STR_SPEC == 35
STR_SEP == 34
FIELD_SEP == 58
\* a byte that is none of the delimiters
Letter(i) == 96 + i
CH_A == Letter(1)
CH_B == Letter(2)
\* (size_t) -1; TLC's largest integer stands for the largest size_t
SIZE_MAX == 2147483647

ODE_NAME == "ODE_NAME"
ODE_VALUE == "ODE_VALUE"

\* ------------------------------------------------------------ bounds
\* addresses the allocator can hand out
MaxAddr == 12
\* objects a caller can reach before ode_add is no longer called
MaxNodes == 3
\* the same, where the allocator never fails
MaxEngineNodes == 4
\* bytes of a string given to the string functions of the codec
MaxLen == 5
\* tokens of a buffer given to ode_deserial
MaxTok == 4
\* the allocation of ode_deserial that fails is one of the first MaxFail
MaxFail == 3

Addrs == 1..MaxAddr
Null == 0
NoPtr == <<0, 0>>
\* a pointer whose bytes are not all inside an allocation
Indet == <<-1, -1>>
\* the address of a block that has been freed
Dead == -2

\* names and values the caller passes to the tree engine
Names == {<<CH_A>>, <<CH_B>>}
\* two quotes, then a hash, then a semicolon
Values == {<<STR_SEP, STR_SEP, STR_SPEC, OBJ_SEP>>}

\* the byte strings given to the string functions of the codec
Alphabet == {STR_SEP, STR_SPEC, CH_A}
Strs == UNION {[1..n -> Alphabet] : n \in 0..MaxLen}

\* the buffers given to ode_deserial: up to MaxTok of these tokens
Tokens == {<<STR_SEP, CH_A, STR_SEP>>, <<STR_SEP, CH_B, STR_SEP>>,
           <<FIELD_SEP>>, <<OBJ_SEP>>, <<OBJ_SPEC>>}
RECURSIVE Flat(_)
Flat(ts) == IF ts = <<>> THEN <<>> ELSE Head(ts) \o Flat(Tail(ts))
Inputs == {Flat(ts) : ts \in UNION {[1..n -> Tokens] : n \in 1..MaxTok}}

Min(a, b) == IF a < b THEN a ELSE b

\* the sequence s itself, with its elements computed once

\* size_t arithmetic
SzInc(n) == IF n = SIZE_MAX THEN 0 ELSE n + 1
SzDec(n) == IF n = 0 THEN SIZE_MAX ELSE n - 1

\* ------------------------------------------------------------ the heap
FreeBlk == [kind |-> "free"]
\* a block that free or realloc released during the call being made: the
\* allocator does not hand its address out again before the call returns, so
\* a pointer to it that is still stored stays dangling
FreedBlk == [kind |-> "freed"]
StrBlk(bytes) == [kind |-> "str", bytes |-> bytes]
\* short: the bytes of the last slot that lie outside the allocation
ObjBlk(slots, short) == [kind |-> "obj", slots |-> slots, short |-> short]

IsStr(m, a) == a \in Addrs /\ m[a].kind = "str"
IsObj(m, a) == a \in Addrs /\ m[a].kind = "obj"
IsLive(m, a) == a \in Addrs /\ m[a].kind \in {"str", "obj"}
Live(m) == {a \in Addrs : m[a].kind \in {"str", "obj"}}

FreeAddrs(m) == {a \in Addrs : m[a].kind = "free"}
NewAddr(m) ==
    IF FreeAddrs(m) = {} THEN Null
    ELSE CHOOSE a \in FreeAddrs(m) : \A b \in FreeAddrs(m) : a <= b

\* malloc: a new block at a free address, or NULL
ODE_MALLOC(m, blk, how) ==
    LET a == NewAddr(m)
    IN  IF how = "fail" \/ a = Null THEN [m |-> m, p |-> Null]
        ELSE [m |-> [m EXCEPT ![a] = blk], p |-> a]

\* realloc of the live block p to the content blk: NULL (p untouched), the
\* same address, or a new address (p freed)
ODE_REALLOC(m, p, blk, how) ==
    LET a == NewAddr(m)
    IN  IF how = "fail" \/ (how = "move" /\ a = Null) THEN [m |-> m, p |-> Null]
        ELSE IF how = "same" THEN [m |-> [m EXCEPT ![p] = blk], p |-> p]
        ELSE [m |-> [m EXCEPT ![a] = blk, ![p] = FreedBlk], p |-> a]

ODE_FREE(m, p) == IF p = Null THEN m ELSE [m EXCEPT ![p] = FreedBlk]

\* ------------------------------------------------------------ objects
\* struct ode_object
ode_object(name_len, value_len, name, value, nsub, sub, sur) ==
    [name_len |-> name_len, value_len |-> value_len, name |-> name,
     value |-> value, nsub |-> nsub, sub |-> sub, sur |-> sur]

INIT(parent) == ode_object(0, 0, Null, Null, 0, Null, parent)

\* a slot of a fresh allocation, not written yet
Uninit == ode_object(-1, -1, -1, -1, -1, -1, Indet)

ValidPtr(m, p) == IsObj(m, p[1]) /\ p[2] \in 1..Len(m[p[1]].slots)
Rec(m, p) == m[p[1]].slots[p[2]]
\* an object that can be read: inside a live array and initialised
Readable(m, p) == ValidPtr(m, p) /\ Rec(m, p) # Uninit
SetRec(m, p, r) == [m EXCEPT ![p[1]].slots[p[2]] = r]

\* LAST_SUB(obj)
LAST_SUB(o) == <<o.sub, o.nsub>>

\* the n slots of an array (re)allocated from the slots old
Resize(old, n) ==
    IF n <= Len(old) THEN SubSeq(old, 1, n)
    ELSE old \o [i \in 1..(n - Len(old)) |-> Uninit]

\* the first len bytes of the buffer at a
Bytes(m, a, len) == SubSeq(m[a].bytes, 1, len)


\* ------------------------------------------------------------ results
\* what a call leaves: the heap, whether it left defined behaviour, what it
\* returned, and what its (at most two) allocations did ("none": not reached)
\* ok: the call reported success; ret: the object it returned
Res(m, ok, ret, a1, a2) ==
    [m |-> m, f |-> FALSE, ok |-> ok, ret |-> ret, a1 |-> a1, a2 |-> a2]
Undef(m) ==
    [m |-> m, f |-> TRUE, ok |-> FALSE, ret |-> NoPtr, a1 |-> "none",
     a2 |-> "none"]

\* what an allocation did, from what the allocator was told to do
Did(how, old, new) ==
    IF new = Null THEN "fail" ELSE IF old # Null /\ new = old THEN "same"
    ELSE IF old = Null THEN "new" ELSE "move"

\* ------------------------------------------------------------ set_str
\* [m, f, ok, p, len, a]: the buffer dest (of length field dest_len) set to a
\* copy of str; p and len are the new *dest and *dest_len
set_str(m, dest, dest_len, str, how) ==
    LET len == Len(str)
        fresh == StrBlk(str \o <<0>>)
        out(mm, ff, ok, p, a) ==
            [m |-> mm, f |-> ff, ok |-> ok, p |-> p, len |-> len, a |-> a]
    IN  IF dest # Null
        THEN IF ~IsStr(m, dest) THEN out(m, TRUE, FALSE, Null, "none")
             ELSE IF len # dest_len
             THEN LET r == ODE_REALLOC(m, dest, fresh, how)
                  IN  IF r.p = Null THEN out(m, FALSE, FALSE, Null, "fail")
                      ELSE out(r.m, FALSE, TRUE, r.p, Did(how, dest, r.p))
             ELSE \* new = *dest: written in place
                  IF Len(m[dest].bytes) < len + 1
                  THEN out(m, TRUE, FALSE, Null, "none")
                  ELSE LET old == m[dest].bytes
                           b == str \o <<0>> \o SubSeq(old, len + 2, Len(old))
                       IN  out([m EXCEPT ![dest] = StrBlk(b)], FALSE, TRUE,
                               dest, "none")
        ELSE LET r == ODE_MALLOC(m, fresh, how)
             IN  IF r.p = Null THEN out(m, FALSE, FALSE, Null, "fail")
                 ELSE out(r.m, FALSE, TRUE, r.p, "new")

\* ------------------------------------------------------------ ode_get1
\* [f, ret]: the first subordinate of from whose name is the bytes name
\* (the branch with an explicit len: name_len == len && memcmp == 0)
ode_get1(m, from, name) ==
    LET F == Rec(m, from)
        len == Len(name)
    IN  IF F.sub = Null THEN [f |-> FALSE, ret |-> NoPtr]
        ELSE IF ~IsObj(m, F.sub) THEN [f |-> TRUE, ret |-> NoPtr]
        ELSE
        LET slots == m[F.sub].slots
            lim == Min(F.nsub, Len(slots))
            Cmp(i) == slots[i].name_len = len
            Bad(i) == \/ slots[i] = Uninit
                      \/ /\ Cmp(i)
                         /\ ~(/\ IsStr(m, slots[i].name)
                              /\ Len(m[slots[i].name].bytes) >= len)
            Hit(i) == /\ ~Bad(i)
                      /\ Cmp(i)
                      /\ Bytes(m, slots[i].name, len) = name
            stops == {i \in 1..lim : Bad(i) \/ Hit(i)}
            k == CHOOSE i \in stops : \A j \in stops : i <= j
        IN  IF stops = {}
            THEN [f |-> F.nsub > lim, ret |-> NoPtr]
            ELSE IF Bad(k) THEN [f |-> TRUE, ret |-> NoPtr]
            ELSE [f |-> FALSE, ret |-> <<F.sub, k>>]

\* ------------------------------------------------------------ ode_get
\* eq_str without "If 'a' is longer than 'b'": a string that b is a prefix of
\* would be equal to b, and the path lookup must differ from ode_get1
eq_str_prefix(m, a, b, b_len) ==
    LET n == Min(Len(a), b_len)
        ok == n = 0 \/ (IsStr(m, b) /\ Len(m[b].bytes) >= n)
    IN  [f |-> ~ok,
         eq |-> ok /\ Len(a) >= b_len /\ \A i \in 1..n : a[i] = m[b].bytes[i]]

\* [f, eq]: is the C string a (its bytes before the terminating 0) the b_len
\* bytes at b.  The loop reads b up to the first difference or the end of a
eq_str(m, a, b, b_len) ==
    LET n == Min(Len(a), b_len)
        Diff == {i \in 1..n : a[i] # m[b].bytes[i]}
        read == IF Diff = {} THEN n ELSE CHOOSE i \in Diff : \A j \in Diff : i <= j
    IN  IF n = 0 THEN [f |-> FALSE, eq |-> Len(a) = b_len]
        ELSE IF ~IsStr(m, b) THEN [f |-> TRUE, eq |-> FALSE]
        ELSE IF Len(m[b].bytes) < read THEN [f |-> TRUE, eq |-> FALSE]
        ELSE [f |-> FALSE, eq |-> Diff = {} /\ Len(a) = b_len]

\* [f, ret]: the loop ITER_SUB(from, o) of ode_get for the argument arg: the
\* first subordinate of from with eq_str(arg, o->name, o->name_len)
get_arg(m, from, arg) ==
    LET F == Rec(m, from)
    IN  IF F.sub = Null THEN [f |-> FALSE, ret |-> NoPtr]
        ELSE IF ~IsObj(m, F.sub) THEN [f |-> TRUE, ret |-> NoPtr]
        ELSE
        LET slots == m[F.sub].slots
            lim == Min(F.nsub, Len(slots))
            E(i) == eq_str(m, arg, slots[i].name, slots[i].name_len)
            Bad(i) == slots[i] = Uninit \/ E(i).f
            Hit(i) == ~Bad(i) /\ E(i).eq
            stops == {i \in 1..lim : Bad(i) \/ Hit(i)}
            k == CHOOSE i \in stops : \A j \in stops : i <= j
        IN  IF stops = {}
            THEN [f |-> F.nsub > lim, ret |-> NoPtr]
            ELSE IF Bad(k) THEN [f |-> TRUE, ret |-> NoPtr]
            ELSE [f |-> FALSE, ret |-> <<F.sub, k>>]

RECURSIVE ode_get(_, _, _)
\* [f, ret]: the object found from from along the names args (the arguments
\* before the terminating NULL)
ode_get(m, from, args) ==
    IF args = <<>> THEN [f |-> FALSE, ret |-> from]
    ELSE IF ~Readable(m, from) THEN [f |-> TRUE, ret |-> NoPtr]
    ELSE LET g == get_arg(m, from, Head(args))
         IN  IF g.f \/ g.ret = NoPtr THEN g
             ELSE ode_get(m, g.ret, Tail(args))

\* ------------------------------------------------------------ ode_iter
\* [f, ret]: the subordinate of obj after pos, the first one for a NULL pos.
\* pos >= obj->sub && pos < LAST_SUB(obj) compares addresses: a pos in another
\* block is below obj->sub or above LAST_SUB(obj) wherever the block lies
ode_iter(m, obj, pos) ==
    IF ~Readable(m, obj) THEN [f |-> TRUE, ret |-> NoPtr]
    ELSE
    LET O == Rec(m, obj)
    IN  IF pos # NoPtr /\ O.sub # Null
        THEN IF pos[1] = O.sub /\ pos[2] >= 1 /\ pos[2] < O.nsub
             THEN [f |-> FALSE, ret |-> <<pos[1], pos[2] + 1>>]
             ELSE [f |-> FALSE, ret |-> NoPtr]
        ELSE [f |-> FALSE,
              ret |-> IF O.sub = Null THEN NoPtr ELSE <<O.sub, 1>>]

\* ------------------------------------------------------------ destroy
RECURSIVE destroy(_, _, _)
RECURSIVE destroySubs(_, _, _, _, _)
\* [m, f]: the buffers and arrays the record o owns, freed
destroy(m, o, fuel) ==
    IF fuel = 0 \/ o = Uninit \/ (o.name # Null /\ ~IsLive(m, o.name))
    THEN [m |-> m, f |-> TRUE]
    ELSE
    LET m1 == ODE_FREE(m, o.name)
    IN  IF o.value # Null
        THEN IF ~IsLive(m1, o.value) THEN [m |-> m, f |-> TRUE]
             ELSE [m |-> ODE_FREE(m1, o.value), f |-> FALSE]
        ELSE IF o.sub # Null
        THEN LET r == destroySubs(m1, o.sub, 1, o.nsub, fuel - 1)
             IN  IF r.f \/ ~IsLive(r.m, o.sub) THEN [m |-> m, f |-> TRUE]
                 ELSE [m |-> ODE_FREE(r.m, o.sub), f |-> FALSE]
        ELSE [m |-> m1, f |-> FALSE]

\* ITER_SUB(obj, o) destroy(o), from the i-th subordinate on
destroySubs(m, sub, i, n, fuel) ==
    IF i > n THEN [m |-> m, f |-> FALSE]
    ELSE IF ~Readable(m, <<sub, i>>) THEN [m |-> m, f |-> TRUE]
    ELSE LET r == destroy(m, Rec(m, <<sub, i>>), fuel)
         IN  IF r.f THEN r ELSE destroySubs(r.m, sub, i + 1, n, fuel)

\* ------------------------------------------------------------ resur
\* the subordinates of obj whose own subordinates resur can write to
ResurOk(m, obj) ==
    LET O == Rec(m, obj)
    IN  \/ O.nsub = 0
        \/ /\ IsObj(m, O.sub)
           /\ O.nsub <= Len(m[O.sub].slots)
           /\ \A i \in 1..O.nsub :
                LET o == m[O.sub].slots[i]
                IN  /\ o # Uninit
                    /\ o.sub # Null =>
                         /\ IsObj(m, o.sub)
                         /\ o.nsub <= Len(m[o.sub].slots) - m[o.sub].short

\* [m, f]: p->sur = o for every subordinate o of obj and every subordinate p
\* of o.  The loops only write sur and only read sub and nsub, so the result
\* is: each slot gets the last o (in storage order) that reaches it.
resur(m, obj) ==
    IF ~ResurOk(m, obj) THEN [m |-> m, f |-> TRUE]
    ELSE
    LET O == Rec(m, obj)
        o(i) == m[O.sub].slots[i]
        Reach(a, j) == {i \in 1..O.nsub : o(i).sub = a /\ j <= o(i).nsub}
        Top(S) == CHOOSE i \in S : \A k \in S : k <= i
    IN  [m |-> [a \in Addrs |->
                 IF m[a].kind # "obj" THEN m[a]
                 ELSE [m[a] EXCEPT !.slots =
                         [j \in 1..Len(m[a].slots) |->
                            IF Reach(a, j) = {} THEN m[a].slots[j]
                            ELSE [m[a].slots[j] EXCEPT
                                    !.sur = <<O.sub, Top(Reach(a, j))>>]]]],
         f |-> FALSE]


\* ------------------------------------------------------------ ode_create
ode_create(m, name, h1, h2) ==
    LET r == ODE_MALLOC(m, ObjBlk(<<Uninit>>, 0), h1)
        ret == <<r.p, 1>>
    IN  IF r.p = Null THEN Res(m, FALSE, NoPtr, "fail", "none")
        ELSE
        LET m1 == SetRec(r.m, ret, INIT(NoPtr))
            s == set_str(m1, Null, 0, name, h2)
        IN  IF ~s.ok THEN Res(ODE_FREE(m1, r.p), FALSE, NoPtr, "new", "fail")
            ELSE Res(SetRec(s.m, ret, [INIT(NoPtr) EXCEPT
                                         !.name = s.p, !.name_len = s.len]),
                     TRUE, ret, "new", "new")

\* ------------------------------------------------------------ ode_mod
\* "Prevent name duplication": is the new name refused
ModDup(m, obj, type, str) ==
    LET O == Rec(m, obj)
    IN  IF type = ODE_NAME /\ O.sur # NoPtr
        THEN IF ~Readable(m, O.sur) THEN [f |-> TRUE, ret |-> NoPtr]
             ELSE ode_get1(m, O.sur, str)
        ELSE [f |-> FALSE, ret |-> NoPtr]

\* ode_mod as it would be without "Object may not have value and child": the
\* exclusivity of value and subordinates must not hold of it
ode_mod_unguarded(m, obj, type, str, how) ==
    IF ~Readable(m, obj) THEN Undef(m)
    ELSE
    LET O == Rec(m, obj)
        dup == ModDup(m, obj, type, str)
    IN  IF dup.f THEN Undef(m)
        ELSE IF dup.ret # NoPtr THEN Res(m, FALSE, NoPtr, "none", "none")
        ELSE
        LET s == IF type = ODE_NAME
                 THEN set_str(m, O.name, O.name_len, str, how)
                 ELSE set_str(m, O.value, O.value_len, str, how)
            O2 == IF type = ODE_NAME
                  THEN [O EXCEPT !.name = s.p, !.name_len = s.len]
                  ELSE [O EXCEPT !.value = s.p, !.value_len = s.len]
        IN  IF s.f THEN Undef(m)
            ELSE IF ~s.ok THEN Res(m, FALSE, NoPtr, s.a, "none")
            ELSE Res(SetRec(s.m, obj, O2), TRUE, obj, s.a, "none")

ode_mod(m, obj, type, str, how) ==
    IF ~Readable(m, obj) THEN Undef(m)
    ELSE
    LET O == Rec(m, obj)
        dup == ModDup(m, obj, type, str)
    IN  IF type = ODE_VALUE /\ O.sub # Null
        THEN Res(m, FALSE, NoPtr, "none", "none")
        ELSE IF dup.f THEN Undef(m)
        ELSE IF dup.ret # NoPtr THEN Res(m, FALSE, NoPtr, "none", "none")
        ELSE
        LET s == IF type = ODE_NAME
                 THEN set_str(m, O.name, O.name_len, str, how)
                 ELSE set_str(m, O.value, O.value_len, str, how)
            O2 == IF type = ODE_NAME
                  THEN [O EXCEPT !.name = s.p, !.name_len = s.len]
                  ELSE [O EXCEPT !.value = s.p, !.value_len = s.len]
        IN  IF s.f THEN Undef(m)
            ELSE IF ~s.ok THEN Res(m, FALSE, NoPtr, s.a, "none")
            ELSE Res(SetRec(s.m, obj, O2), TRUE, obj, s.a, "none")

\* ------------------------------------------------------------ ode_add
\* ode_add from INIT(add, to) on: new_sub is the array that has room for the
\* new object, add the new object in it, a1 what the allocation did
add_tail(m, to, name, new_sub, add, a1, hn) ==
    IF ~Readable(m, to) THEN Undef(m)
    ELSE
    LET T == Rec(m, to)
        moved == a1 = "move"
        m1 == SetRec(m, add, INIT(to))
        s == set_str(m1, Null, 0, name, hn)
    IN  IF ~s.ok
        THEN \* "Reset on failure to set name for atomicity"
             IF T.nsub = 0
             THEN Res(SetRec(ODE_FREE(m1, new_sub), to, [T EXCEPT !.sub = Null]),
                      FALSE, NoPtr, a1, "fail")
             ELSE Res(m1, FALSE, NoPtr, a1, "fail")
        ELSE
        LET m2 == SetRec(s.m, add, [INIT(to) EXCEPT
                                      !.name = s.p, !.name_len = s.len])
            m3 == SetRec(m2, to, [T EXCEPT !.sub = new_sub])
            r == IF moved THEN resur(m3, to) ELSE [m |-> m3, f |-> FALSE]
        IN  IF r.f THEN Undef(m)
            ELSE Res(SetRec(r.m, to, [Rec(r.m, to) EXCEPT !.nsub = SzInc(@)]),
                     TRUE, add, a1, "new")

ode_add(m, to, name, ha, hn) ==
    IF ~Readable(m, to) THEN Undef(m)
    ELSE
    LET T == Rec(m, to)
    IN  IF T.value # Null THEN Res(m, FALSE, NoPtr, "none", "none")
        ELSE IF T.sub # Null
        THEN LET g == ode_get1(m, to, name)
             IN  IF g.f THEN Undef(m)
                 ELSE IF g.ret # NoPtr THEN Res(m, FALSE, NoPtr, "none", "none")
                 ELSE IF T.nsub = SIZE_MAX THEN Undef(m)
                 ELSE
                 LET grown == ObjBlk(Resize(m[T.sub].slots, T.nsub + 1), 0)
                     r == ODE_REALLOC(m, T.sub, grown, ha)
                 IN  IF r.p = Null THEN Res(m, FALSE, NoPtr, "fail", "none")
                     ELSE add_tail(r.m, to, name, r.p, <<r.p, T.nsub + 1>>,
                                   Did(ha, T.sub, r.p), hn)
        ELSE LET r == ODE_MALLOC(m, ObjBlk(<<Uninit>>, 0), ha)
             IN  IF r.p = Null THEN Res(m, FALSE, NoPtr, "fail", "none")
                 ELSE add_tail(r.m, to, name, r.p, <<r.p, 1>>, "new", hn)

\* ------------------------------------------------------------ ode_del
\* the array of sur after realloc(sur->sub, sizeof(*sur->sub) * nsub - 1): nsub
\* slots, the last one byte short (the last byte of its sur is not kept)
Shrunk(slots, nsub) ==
    ObjBlk([Resize(slots, nsub) EXCEPT ![nsub].sur = Indet], 1)

\* sur->sub = new_sub; --sur->nsub; if (moved) resur(sur);
del_tail(m, sur, new_sub, a1) ==
    IF ~Readable(m, sur) THEN Undef(m)
    ELSE
    LET S == Rec(m, sur)
        m1 == SetRec(m, sur, [S EXCEPT !.sub = new_sub, !.nsub = SzDec(@)])
        r == IF a1 = "move" THEN resur(m1, sur) ELSE [m |-> m1, f |-> FALSE]
    IN  IF r.f THEN Undef(m) ELSE Res(r.m, TRUE, NoPtr, a1, "none")

\* ode_del where the slot of obj is not written back when the shrinking
\* fails: the failed Delete must not be atomic of it
del_reset_missing(m, obj, backup, copy) ==
    Res(m, FALSE, NoPtr, "fail", "none")

\* "Reset on failure to shrink": if (obj != LAST_SUB(sur)) *obj = backup;
\* return 0;
del_reset(m, obj, backup, copy) ==
    Res(IF copy THEN SetRec(m, obj, backup) ELSE m, FALSE, NoPtr, "fail",
        "none")

ode_del(m, obj, how) ==
    IF obj = NoPtr THEN Res(m, FALSE, NoPtr, "none", "none")
    ELSE IF ~Readable(m, obj) THEN Undef(m)
    ELSE
    LET O == Rec(m, obj)
    IN  IF O.sur = NoPtr
        THEN \* a root object
             LET d == destroy(m, O, MaxAddr)
             IN  IF d.f \/ obj[2] # 1 \/ ~IsLive(d.m, obj[1]) THEN Undef(m)
                 ELSE Res(ODE_FREE(d.m, obj[1]), TRUE, NoPtr, "none", "none")
        ELSE IF ~Readable(m, O.sur) THEN Undef(m)
        ELSE
        LET sur == O.sur
            S == Rec(m, sur)
        IN  IF S.nsub > 1
            THEN LET backup == O
                     copy == obj # LAST_SUB(S)
                 IN  IF \/ ~IsObj(m, S.sub)
                        \/ S.nsub = SIZE_MAX
                        \/ copy /\ ~ValidPtr(m, LAST_SUB(S))
                     THEN Undef(m)
                     ELSE
                     LET m1 == IF copy THEN SetRec(m, obj, Rec(m, LAST_SUB(S)))
                               ELSE m
                         r == ODE_REALLOC(m1, S.sub,
                                          Shrunk(m1[S.sub].slots, S.nsub), how)
                     IN  IF r.p = Null THEN del_reset(m1, obj, backup, copy)
                         ELSE LET d == destroy(r.m, backup, MaxAddr)
                              IN  IF d.f THEN Undef(m)
                                  ELSE del_tail(d.m, sur, r.p,
                                                Did(how, S.sub, r.p))
            ELSE LET d == destroy(m, O, MaxAddr)
                 IN  IF d.f \/ obj[2] # 1 \/ ~IsLive(d.m, obj[1]) THEN Undef(m)
                     ELSE del_tail(ODE_FREE(d.m, obj[1]), sur, Null, "none")


\* ------------------------------------------------------------ ode_zero
RECURSIVE ode_zero(_, _, _)
RECURSIVE zeroSubs(_, _, _, _, _)
\* the first len bytes of the buffer at a, overwritten by zero_fn
Zeroed(m, a, len) ==
    [m EXCEPT ![a].bytes = [i \in 1..Len(@) |-> IF i <= len THEN 0 ELSE @[i]]]

\* [m, f]: the names and the values of obj and of all its subordinates zeroed,
\* and their lengths with them
ode_zero(m, obj, fuel) ==
    IF fuel = 0 \/ ~Readable(m, obj) THEN [m |-> m, f |-> TRUE]
    ELSE
    LET O == Rec(m, obj)
    IN  IF ~IsStr(m, O.name) \/ Len(m[O.name].bytes) < O.name_len
        THEN [m |-> m, f |-> TRUE]
        ELSE
        LET m1 == SetRec(Zeroed(m, O.name, O.name_len), obj,
                         [O EXCEPT !.name_len = 0])
        IN  IF O.value # Null
            THEN IF ~IsStr(m1, O.value) \/ Len(m1[O.value].bytes) < O.value_len
                 THEN [m |-> m, f |-> TRUE]
                 ELSE [m |-> SetRec(Zeroed(m1, O.value, O.value_len), obj,
                                    [Rec(m1, obj) EXCEPT !.value_len = 0]),
                       f |-> FALSE]
            ELSE IF O.sub # Null
            THEN zeroSubs(m1, O.sub, 1, O.nsub, fuel - 1)
            ELSE [m |-> m1, f |-> FALSE]

\* ITER_SUB(obj, o) ode_zero(o, zero_fn), from the i-th subordinate on
zeroSubs(m, sub, i, n, fuel) ==
    IF i > n THEN [m |-> m, f |-> FALSE]
    ELSE LET r == ode_zero(m, <<sub, i>>, fuel)
         IN  IF r.f THEN r ELSE zeroSubs(r.m, sub, i + 1, n, fuel)

RECURSIVE zero_calls(_, _, _)
RECURSIVE zeroCallsSubs(_, _, _, _, _)
\* a call of zero_fn on the first n bytes of the buffer at
ZeroBuf(at, n) == [on |-> "buf", at |-> at, n |-> n]
\* a call of zero_fn on the length field of the object obj
ZeroLen(obj, field) == [on |-> field, at |-> obj, n |-> 1]

\* the calls of zero_fn that ode_zero(obj, zero_fn) makes, in order
zero_calls(m, obj, fuel) ==
    IF fuel = 0 \/ ~Readable(m, obj) THEN <<>>
    ELSE
    LET O == Rec(m, obj)
        name == <<ZeroBuf(O.name, O.name_len), ZeroLen(obj, "name_len")>>
    IN  IF O.value # Null
        THEN name \o <<ZeroBuf(O.value, O.value_len),
                       ZeroLen(obj, "value_len")>>
        ELSE IF O.sub # Null
        THEN name \o zeroCallsSubs(m, O.sub, 1, O.nsub, fuel - 1)
        ELSE name

\* ITER_SUB(obj, o) ode_zero(o, zero_fn), from the i-th subordinate on
zeroCallsSubs(m, sub, i, n, fuel) ==
    IF i > n THEN <<>>
    ELSE zero_calls(m, <<sub, i>>, fuel)
         \o zeroCallsSubs(m, sub, i + 1, n, fuel)

\* ------------------------------------------------------------ text codec
\* n times the byte c
Rep(c, n) == [i \in 1..n |-> c]

RECURSIVE SpecRun(_, _, _)
\* the number of STR_SPEC in str from position i on, before position term
SpecRun(str, i, term) ==
    IF i < term /\ str[i] = STR_SPEC THEN 1 + SpecRun(str, i + 1, term) ELSE 0

RECURSIVE nspec_from(_, _, _)
\* the loop of nspec with str at position i and hi_specs at hi
nspec_from(str, i, hi) ==
    IF i > Len(str) THEN hi
    ELSE IF str[i] = STR_SEP
    THEN LET specs == 1 + SpecRun(str, i + 1, Len(str) + 1)
         IN  \* the inner loop has left str after the run; the outer ++str
             \* steps over one more byte
             nspec_from(str, i + specs + 1, IF specs > hi THEN specs ELSE hi)
    ELSE nspec_from(str, i + 1, hi)

nspec(str) == nspec_from(str, 1, 0)

AS_SERIAL_LEN(real_len, specs) == real_len + 2 * specs + 2
SERIAL_START(serial, specs) == serial + specs + 1

RECURSIVE info_open(_, _, _)
\* "Handle opening STR_SPEC": where the loop stops, or 0 (invalid)
info_open(buf, serial, end) ==
    IF serial <= end /\ buf[serial] # STR_SEP
    THEN IF buf[serial] = STR_SPEC THEN info_open(buf, serial + 1, end) ELSE 0
    ELSE serial

RECURSIVE info_close(_, _, _, _)
\* "Handle string ending", from cont: r_end, or 0 (invalid)
info_close(buf, serial, end, specs) ==
    IF serial > end THEN 0
    ELSE IF buf[serial] # STR_SEP THEN info_close(buf, serial + 1, end, specs)
    ELSE
    LET run == CHOOSE k \in 0..specs :
                 /\ \A j \in 1..k : serial + j <= end
                                    /\ buf[serial + j] = STR_SPEC
                 /\ k < specs => ~(serial + k + 1 <= end
                                   /\ buf[serial + k + 1] = STR_SPEC)
    IN  IF run = specs THEN serial
        ELSE IF serial + run + 1 > end THEN 0
        ELSE \* goto cont, at the byte that is not a STR_SPEC
             info_close(buf, serial + run + 1, end, specs)

\* [ok, real_len, specs]
info_serial(buf, serial, end) ==
    LET no == [ok |-> FALSE, real_len |-> 0, specs |-> 0]
        r_start == info_open(buf, serial, end)
    IN  IF serial >= end THEN no
        ELSE IF r_start = 0 \/ r_start >= end THEN no
        ELSE LET specs == r_start - serial
                 r_end == info_close(buf, r_start + 1, end, specs)
             IN  IF r_end = 0 THEN no
                 ELSE [ok |-> TRUE, real_len |-> r_end - r_start - 1,
                       specs |-> specs]

\* [m, pos, p, len, a]: pos the new serial (0: NULL), p and len the new *dest
\* and *len, a what the allocation did
deserial_str(m, buf, serial, end, how) ==
    LET i == info_serial(buf, serial, end)
        no(a) == [m |-> m, pos |-> 0, p |-> Null, len |-> 0, a |-> a]
    IN  IF ~i.ok THEN no("none")
        ELSE
        LET from == SERIAL_START(serial, i.specs)
            real == SubSeq(buf, from, from + i.real_len - 1) \o <<0>>
            r == ODE_MALLOC(m, StrBlk(real), how)
        IN  IF r.p = Null THEN no("fail")
            ELSE [m |-> r.m, pos |-> serial + AS_SERIAL_LEN(i.real_len, i.specs),
                  p |-> r.p, len |-> i.real_len, a |-> "new"]

\* the bytes serial_str writes for str
serial_str(str) ==
    LET specs == nspec(str)
    IN  Rep(STR_SPEC, specs) \o <<STR_SEP>> \o str \o <<STR_SEP>>
        \o Rep(STR_SPEC, specs)

\* what the allocator does at the n-th allocation of a call of which the
\* failAt-th allocation fails (0: none)
How(n, failAt) == IF n = failAt THEN "fail" ELSE "move"

\* [m, f, pos, n]: what mkdeserial leaves.  pos: the new serial (0: NULL), n:
\* the allocations asked for so far, f: a block was freed that was not live
MkOut(m, f, pos, n) == [m |-> m, f |-> f, pos |-> pos, n |-> n]

\* fail: free(dest->name); return NULL;
MkFail(m, dest, f, n) ==
    MkOut(ODE_FREE(m, Rec(m, dest).name),
          f \/ (Rec(m, dest).name # Null /\ ~IsLive(m, Rec(m, dest).name)),
          0, n)

\* the allocations asked for after the string function that returned d
Asked(d, n) == IF d.a = "none" THEN n ELSE n + 1

\* the number of OBJ_SPEC in buf from position serial on, up to end
RECURSIVE SubRun(_, _, _)
SubRun(buf, serial, end) ==
    IF serial <= end /\ buf[serial] = OBJ_SPEC
    THEN 1 + SubRun(buf, serial + 1, end) ELSE 0

RECURSIVE mkdeserial(_, _, _, _, _, _, _)
RECURSIVE mkdeserialSubs(_, _, _, _, _, _, _, _)

\* case FIELD_SEP, v what deserial_str returned for the value
mkdeserial_value(v, dest, buf, end, n) ==
    LET m2 == IF v.pos = 0 THEN v.m
              ELSE SetRec(v.m, dest, [Rec(v.m, dest) EXCEPT
                                        !.value = v.p, !.value_len = v.len])
    IN  IF v.pos = 0 \/ v.pos > end \/ buf[v.pos] # OBJ_SEP
        THEN MkFail(m2, dest, FALSE, Asked(v, n))
        ELSE MkOut(m2, FALSE, v.pos + 1, Asked(v, n))

\* case OBJ_SPEC, after the loop over the subordinates, which left k
mkdeserial_subs_end(k, dest) ==
    IF k.pos = 0
    THEN \* free(dest->sub); goto fail;
         MkFail(ODE_FREE(k.m, Rec(k.m, dest).sub), dest, k.f, k.n)
    ELSE k

\* case OBJ_SPEC, r what ODE_MALLOC returned for the nsub subordinates
mkdeserial_subs(m, r, dest, buf, serial, end, nsub, n, failAt) ==
    IF r.p = Null THEN MkFail(m, dest, FALSE, n)
    ELSE mkdeserial_subs_end(
           mkdeserialSubs(SetRec(r.m, dest, [Rec(r.m, dest) EXCEPT
                                               !.sub = r.p, !.nsub = nsub]),
                          dest, buf, serial, end, n, failAt, 1),
           dest)

\* mkdeserial after the name, d what deserial_str returned for it
mkdeserial_name(m, d, dest, buf, end, n, failAt) ==
    IF d.pos = 0 THEN MkOut(m, FALSE, 0, n)
    ELSE IF d.pos > end THEN MkOut(m, FALSE, 0, n)
    ELSE
    LET c == buf[d.pos]
        serial == d.pos + 1
        nsub == 1 + SubRun(buf, serial, end)
    IN  IF c = FIELD_SEP
        THEN mkdeserial_value(deserial_str(m, buf, serial, end,
                                           How(n + 1, failAt)),
                              dest, buf, end, n)
        ELSE IF c = OBJ_SPEC
        THEN IF serial + nsub - 1 >= end THEN MkFail(m, dest, FALSE, n)
             ELSE mkdeserial_subs(m,
                     ODE_MALLOC(m, ObjBlk(Rep(Uninit, nsub), 0),
                                How(n + 1, failAt)),
                     dest, buf, serial + nsub - 1, end, nsub, n + 1, failAt)
        ELSE IF c = OBJ_SEP THEN MkOut(m, FALSE, serial, n)
        ELSE MkFail(m, dest, FALSE, n)

\* the heap after deserial_str returned d for the name of dest
Named(d, dest) ==
    IF d.pos = 0 THEN d.m
    ELSE SetRec(d.m, dest, [Rec(d.m, dest) EXCEPT
                              !.name = d.p, !.name_len = d.len])

\* mkdeserial with the heap m, the n allocations asked for so far and the
\* allocation failAt failing
mkdeserial_from(d, dest, buf, end, n, failAt) ==
    mkdeserial_name(Named(d, dest), d, dest, buf, end, Asked(d, n), failAt)

mkdeserial(m, dest, buf, serial, end, n, failAt) ==
    mkdeserial_from(deserial_str(m, buf, serial, end, How(n + 1, failAt)),
                    dest, buf, end, n, failAt)

\* the loop over the subordinates after mkdeserial left r for the i-th
mkdeserialSubs_next(r, dest, buf, end, failAt, i) ==
    IF r.pos = 0 THEN r
    ELSE mkdeserialSubs(r.m, dest, buf, r.pos, end, r.n, failAt, i + 1)

\* ITER_SUB(dest, sub) { INIT(sub, dest); mkdeserial(sub, ...) }, from the i-th
\* subordinate on
mkdeserialSubs(m, dest, buf, serial, end, n, failAt, i) ==
    IF i > Rec(m, dest).nsub THEN MkOut(m, FALSE, serial, n)
    ELSE mkdeserialSubs_next(
           mkdeserial(SetRec(m, <<Rec(m, dest).sub, i>>, INIT(dest)),
                      <<Rec(m, dest).sub, i>>, buf, serial, end, n, failAt),
           dest, buf, end, failAt, i)

\* ode_deserial after mkdeserial left k for the object ret
ode_deserial_end(k, ret) ==
    IF k.pos = 0
    THEN [m |-> ODE_FREE(k.m, ret[1]), f |-> k.f, ok |-> FALSE,
          ret |-> NoPtr, n |-> k.n]
    ELSE [m |-> k.m, f |-> k.f, ok |-> TRUE, ret |-> ret, n |-> k.n]

\* ode_deserial after ODE_MALLOC returned r for the object
ode_deserial_root(m, r, serial, failAt) ==
    IF r.p = Null
    THEN [m |-> m, f |-> FALSE, ok |-> FALSE, ret |-> NoPtr, n |-> 1]
    ELSE ode_deserial_end(
           mkdeserial(SetRec(r.m, <<r.p, 1>>, INIT(NoPtr)), <<r.p, 1>>,
                      serial, 1, Len(serial), 1, failAt),
           <<r.p, 1>>)

\* [m, f, ok, ret, n]: the object read from the size bytes of serial, the
\* failAt-th allocation of the call failing (0: none)
ode_deserial(m, serial, failAt) ==
    ode_deserial_root(m, ODE_MALLOC(m, ObjBlk(<<Uninit>>, 0), How(1, failAt)),
                      serial, failAt)

\* ------------------------------------------------------------ reads of serial
(***************************************************************************)
(* The positions of the buffer that the decoder dereferences, in the order *)
(* of the code: every *serial and the source of the memcpy.  end is the    *)
(* position of the last byte the caller gave (serial + size - 1); the      *)
(* buffer may go on after it.                                              *)
(***************************************************************************)
\* the byte at position i; memory past the buffer holds none of the
\* delimiters
Byte(buf, i) == IF i \in 1..Len(buf) THEN buf[i] ELSE 0

RECURSIVE reads_open(_, _, _)
\* "Handle opening STR_SPEC": for (; serial <= end && *serial != STR_SEP; )
reads_open(buf, serial, end) ==
    IF serial <= end
    THEN {serial} \cup (IF Byte(buf, serial) = STR_SPEC
                        THEN reads_open(buf, serial + 1, end) ELSE {})
    ELSE {}

RECURSIVE reads_close(_, _, _, _)
RECURSIVE reads_fence(_, _, _, _, _)
\* the do-while without "if (serial > end) return 0": the closing fence would
\* be read past the end of the buffer
reads_fence_unchecked(buf, serial, end, specs, i) ==
    {serial + 1}
    \cup (IF Byte(buf, serial + 1) # STR_SPEC
          THEN reads_close(buf, serial + 1, end, specs)
          ELSE IF i < specs
          THEN reads_fence(buf, serial + 1, end, specs, i + 1)
          ELSE {})

\* do { ++serial; if (serial > end) return 0;
\*      if (*serial != STR_SPEC) goto cont; } while (i++ < specs);
reads_fence(buf, serial, end, specs, i) ==
    IF serial + 1 > end THEN {}
    ELSE {serial + 1}
         \cup (IF Byte(buf, serial + 1) # STR_SPEC
               THEN reads_close(buf, serial + 1, end, specs)
               ELSE IF i < specs
               THEN reads_fence(buf, serial + 1, end, specs, i + 1)
               ELSE {})

\* cont: "Handle string ending": for (; serial <= end; ++serial)
reads_close(buf, serial, end, specs) ==
    IF serial > end THEN {}
    ELSE {serial}
         \cup (IF Byte(buf, serial) # STR_SEP
               THEN reads_close(buf, serial + 1, end, specs)
               ELSE IF specs > 0 THEN reads_fence(buf, serial, end, specs, 1)
               ELSE {})

\* the positions info_serial reads
reads_info_serial(buf, serial, end) ==
    IF serial >= end THEN {}
    ELSE reads_open(buf, serial, end)
         \cup (LET r_start == info_open(buf, serial, end)
               IN  IF r_start = 0 \/ r_start >= end THEN {}
                   ELSE reads_close(buf, r_start + 1, end, r_start - serial))

\* the positions deserial_str reads, d being what it returned: those of
\* info_serial and, after the allocation, the real_len bytes memcpy copies
\* from SERIAL_START(serial, specs)
reads_deserial_str(d, buf, serial, end) ==
    reads_info_serial(buf, serial, end)
    \cup (IF d.pos = 0 THEN {}
          ELSE LET from == SERIAL_START(serial,
                                        info_serial(buf, serial, end).specs)
               IN  from..(from + d.len - 1))

\* the positions for (nsub = 1; serial <= end && *serial == OBJ_SPEC; ) reads
RECURSIVE reads_subrun(_, _, _)
reads_subrun(buf, serial, end) ==
    IF serial <= end
    THEN {serial} \cup (IF Byte(buf, serial) = OBJ_SPEC
                        THEN reads_subrun(buf, serial + 1, end) ELSE {})
    ELSE {}

RECURSIVE reads_mkdeserial(_, _, _, _, _, _, _)
RECURSIVE reads_mkdeserialSubs(_, _, _, _, _, _, _, _)

\* case FIELD_SEP: the value, then *serial++ != OBJ_SEP
reads_value(v, buf, serial, end) ==
    reads_deserial_str(v, buf, serial, end)
    \cup (IF v.pos = 0 \/ v.pos > end THEN {} ELSE {v.pos})

\* case OBJ_SPEC: the run of OBJ_SPEC, then the subordinates
reads_subs(m, dest, buf, serial, end, n, failAt) ==
    LET nsub == 1 + SubRun(buf, serial, end)
        s2 == serial + nsub - 1
        r == ODE_MALLOC(m, ObjBlk(Rep(Uninit, nsub), 0), How(n + 1, failAt))
    IN  reads_subrun(buf, serial, end)
        \cup (IF s2 >= end \/ r.p = Null THEN {}
              ELSE reads_mkdeserialSubs(
                     SetRec(r.m, dest, [Rec(r.m, dest) EXCEPT
                                          !.sub = r.p, !.nsub = nsub]),
                     dest, buf, s2, end, n + 1, failAt, 1))

\* mkdeserial after the name, d what deserial_str returned for it:
\* switch (*serial++)
reads_name(m, d, dest, buf, end, n, failAt) ==
    IF d.pos = 0 \/ d.pos > end THEN {}
    ELSE {d.pos}
         \cup (IF Byte(buf, d.pos) = FIELD_SEP
               THEN reads_value(deserial_str(m, buf, d.pos + 1, end,
                                             How(n + 1, failAt)),
                                buf, d.pos + 1, end)
               ELSE IF Byte(buf, d.pos) = OBJ_SPEC
               THEN reads_subs(m, dest, buf, d.pos + 1, end, n, failAt)
               ELSE {})

\* the positions mkdeserial reads, d what deserial_str returned for the name
reads_from(d, dest, buf, serial, end, n, failAt) ==
    reads_deserial_str(d, buf, serial, end)
    \cup reads_name(Named(d, dest), d, dest, buf, end, Asked(d, n), failAt)

reads_mkdeserial(m, dest, buf, serial, end, n, failAt) ==
    reads_from(deserial_str(m, buf, serial, end, How(n + 1, failAt)),
               dest, buf, serial, end, n, failAt)

\* the loop over the subordinates after mkdeserial left r for the i-th
reads_next(r, dest, buf, end, failAt, i) ==
    IF r.pos = 0 THEN {}
    ELSE reads_mkdeserialSubs(r.m, dest, buf, r.pos, end, r.n, failAt, i + 1)

\* ITER_SUB(dest, sub) mkdeserial(sub, serial, end), from the i-th on
reads_mkdeserialSubs(m, dest, buf, serial, end, n, failAt, i) ==
    IF i > Rec(m, dest).nsub THEN {}
    ELSE reads_mkdeserial(SetRec(m, <<Rec(m, dest).sub, i>>, INIT(dest)),
                          <<Rec(m, dest).sub, i>>, buf, serial, end, n,
                          failAt)
         \cup reads_next(
                mkdeserial(SetRec(m, <<Rec(m, dest).sub, i>>, INIT(dest)),
                           <<Rec(m, dest).sub, i>>, buf, serial, end, n,
                           failAt),
                dest, buf, end, failAt, i)

\* the positions ode_deserial(serial, size) reads of the buffer buf, the
\* failAt-th allocation failing
reads_root(m, r, buf, size, failAt) ==
    IF r.p = Null THEN {}
    ELSE reads_mkdeserial(SetRec(r.m, <<r.p, 1>>, INIT(NoPtr)), <<r.p, 1>>,
                          buf, 1, size, 1, failAt)

reads_ode_deserial(m, buf, size, failAt) ==
    reads_root(m, ODE_MALLOC(m, ObjBlk(<<Uninit>>, 0), How(1, failAt)),
               buf, size, failAt)

\* can the serial form of the object at p be made without reading outside
\* the objects and buffers of the heap
RECURSIVE CanSerial(_, _, _)
CanSerial(m, p, fuel) ==
    /\ fuel > 0
    /\ Readable(m, p)
    /\ LET O == Rec(m, p)
       IN  /\ IsStr(m, O.name)
           /\ O.name_len < Len(m[O.name].bytes)
           /\ IF O.value # Null
              THEN IsStr(m, O.value) /\ O.value_len < Len(m[O.value].bytes)
              ELSE O.sub # Null =>
                     /\ IsObj(m, O.sub)
                     /\ O.nsub <= Len(m[O.sub].slots)
                     /\ \A i \in 1..O.nsub :
                          CanSerial(m, <<O.sub, i>>, fuel - 1)

RECURSIVE size_as_serial(_, _)
RECURSIVE sizeSubs(_, _, _, _)
\* size_as_serial without the byte of the closing OBJ_SEP of an object that
\* has neither a value nor subordinates
size_as_serial_open(m, obj) ==
    LET O == Rec(m, obj)
        ret == AS_SERIAL_LEN(O.name_len, nspec(Bytes(m, O.name, O.name_len)))
    IN  IF O.value # Null
        THEN ret + 2 + AS_SERIAL_LEN(O.value_len,
                                     nspec(Bytes(m, O.value, O.value_len)))
        ELSE IF O.sub # Null
        THEN ret + O.nsub + sizeSubs(m, O.sub, 1, O.nsub)
        ELSE ret

size_as_serial(m, obj) ==
    LET O == Rec(m, obj)
        ret == AS_SERIAL_LEN(O.name_len, nspec(Bytes(m, O.name, O.name_len)))
    IN  IF O.value # Null
        THEN ret + 2 + AS_SERIAL_LEN(O.value_len,
                                     nspec(Bytes(m, O.value, O.value_len)))
        ELSE IF O.sub # Null
        THEN ret + O.nsub + sizeSubs(m, O.sub, 1, O.nsub)
        ELSE ret + 1

\* ITER_SUB(obj, sub) ret += size_as_serial(sub)
sizeSubs(m, sub, i, n) ==
    IF i > n THEN 0
    ELSE size_as_serial(m, <<sub, i>>) + sizeSubs(m, sub, i + 1, n)

RECURSIVE mkserial(_, _)
RECURSIVE serialSubs(_, _, _, _)
\* the bytes mkserial writes for obj
mkserial(m, obj) ==
    LET O == Rec(m, obj)
        name == serial_str(Bytes(m, O.name, O.name_len))
    IN  IF O.value # Null
        THEN name \o <<FIELD_SEP>> \o serial_str(Bytes(m, O.value, O.value_len))
             \o <<OBJ_SEP>>
        ELSE IF O.sub # Null
        THEN name \o Rep(OBJ_SPEC, O.nsub) \o serialSubs(m, O.sub, 1, O.nsub)
        ELSE name \o <<OBJ_SEP>>

\* ITER_SUB(obj, sub) dest = mkserial(dest, sub)
serialSubs(m, sub, i, n) ==
    IF i > n THEN <<>>
    ELSE mkserial(m, <<sub, i>>) \o serialSubs(m, sub, i + 1, n)

\* [f, ok, bytes]: the buffer of size_as_serial(obj) bytes that mkserial has
\* written to (the caller owns it; it is not kept in the heap)
ode_serial(m, obj, how) ==
    IF ~CanSerial(m, obj, MaxAddr)
    THEN [f |-> TRUE, ok |-> FALSE, bytes |-> <<>>]
    ELSE IF how = "fail" THEN [f |-> FALSE, ok |-> FALSE, bytes |-> <<>>]
    ELSE LET ret_sz == size_as_serial(m, obj)
             written == mkserial(m, obj)
         IN  [f |-> Len(written) # ret_sz, ok |-> TRUE, bytes |-> written]

\* ------------------------------------------------------------ writes of dest
(***************************************************************************)
(* The positions of the buffer that the encoder writes, in the order of    *)
(* the code, the buffer starting at position 1.                            *)
(***************************************************************************)
\* the n positions from dest on: memset(dest, c, n), memcpy(dest, str, n)
Span(dest, n) == [i \in 1..n |-> dest + i - 1]

\* the positions serial_str(dest, str, len) writes
writes_serial_str(dest, str) ==
    LET specs == nspec(str)
        len == Len(str)
    IN  Span(dest, specs) \o <<dest + specs>>
        \o Span(dest + specs + 1, len) \o <<dest + specs + len + 1>>
        \o Span(dest + specs + len + 2, specs)

\* the dest serial_str returns: start + AS_SERIAL_LEN(len, specs)
after_serial_str(dest, str) == dest + AS_SERIAL_LEN(Len(str), nspec(str))

\* [dest, w]: the new dest and the positions written so far
Wr(dest, w) == [dest |-> dest, w |-> w]

RECURSIVE writes_mkserial(_, _, _)
RECURSIVE writesSubs(_, _, _, _, _)

\* if (obj->value): *dest++ = FIELD_SEP; serial_str; *dest++ = OBJ_SEP
writes_value(dest, value) ==
    Wr(after_serial_str(dest + 1, value) + 1,
       <<dest>> \o writes_serial_str(dest + 1, value)
       \o <<after_serial_str(dest + 1, value)>>)

\* else if (obj->sub): memset(dest, OBJ_SPEC, nsub); dest += nsub; ITER_SUB
writes_subs(m, dest, O) ==
    LET k == writesSubs(m, dest + O.nsub, O.sub, 1, O.nsub)
    IN  Wr(k.dest, Span(dest, O.nsub) \o k.w)

\* mkserial after the name, which left dest and wrote w
writes_rest(m, dest, w, O) ==
    LET k == IF O.value # Null
             THEN writes_value(dest, Bytes(m, O.value, O.value_len))
             ELSE IF O.sub # Null THEN writes_subs(m, dest, O)
             ELSE Wr(dest + 1, <<dest>>)
    IN  Wr(k.dest, w \o k.w)

\* the positions mkserial(dest, obj) writes and the dest it returns
writes_mkserial(m, dest, obj) ==
    writes_rest(m,
                after_serial_str(dest, Bytes(m, Rec(m, obj).name,
                                             Rec(m, obj).name_len)),
                writes_serial_str(dest, Bytes(m, Rec(m, obj).name,
                                              Rec(m, obj).name_len)),
                Rec(m, obj))

\* the i-th subordinate written, the following ones
writesSubs_next(m, k, sub, i, n) ==
    LET r == writesSubs(m, k.dest, sub, i + 1, n)
    IN  Wr(r.dest, k.w \o r.w)

\* ITER_SUB(obj, sub) dest = mkserial(dest, sub), from the i-th on
writesSubs(m, dest, sub, i, n) ==
    IF i > n THEN Wr(dest, <<>>)
    ELSE writesSubs_next(m, writes_mkserial(m, dest, <<sub, i>>), sub, i, n)

\* ------------------------------------------------------------ the caller
RECURSIVE Desc(_, _, _)
\* the pointers a caller can get from p with ode_iter: p, and the
\* subordinates of every object it can read
Desc(m, p, fuel) ==
    {p} \cup
    IF fuel = 0 \/ ~Readable(m, p) THEN {}
    ELSE LET O == Rec(m, p)
         IN  IF O.sub = Null THEN {}
             ELSE UNION {Desc(m, <<O.sub, i>>, fuel - 1) : i \in 1..O.nsub}

Handles(m, r) == IF r = NoPtr THEN {} ELSE Desc(m, r, MaxAddr)

\* ------------------------------------------------------------ addresses
(***************************************************************************)
(* The code compares addresses only for equality, so the heap is kept up   *)
(* to a renaming of its addresses: after every call the blocks that can be *)
(* reached from the root are numbered in the order a traversal meets them. *)
(* A pointer to a freed block becomes Dead, and a live block nothing       *)
(* points to any more (a leak) is counted and dropped.                     *)
(***************************************************************************)
\* the addresses the block at a holds, in storage order
Refs(m, a) ==
    IF m[a].kind # "obj" THEN <<>>
    ELSE LET S == m[a].slots
             f(o, k) == IF k = 0 THEN o.name ELSE IF k = 1 THEN o.value
                        ELSE IF k = 2 THEN o.sub ELSE o.sur[1]
         IN  [k \in 1..(4 * Len(S)) |->
                     f(S[((k - 1) \div 4) + 1], (k - 1) % 4)]

RECURSIVE Trav(_, _, _)
\* the live blocks reached from the addresses todo, in the order met
Trav(m, todo, seen) ==
    IF todo = <<>> THEN seen
    ELSE LET a == Head(todo)
         IN  IF ~IsLive(m, a) \/ (\E i \in 1..Len(seen) : seen[i] = a)
             THEN Trav(m, Tail(todo), seen)
             ELSE Trav(m, Refs(m, a) \o Tail(todo), Append(seen, a))

Order(m, r) == IF r = NoPtr THEN <<>> ELSE Trav(m, <<r[1]>>, <<>>)

\* the new number of every address, from the order the blocks were met in
Renaming(order) ==
    [a \in Addrs |->
            IF \E i \in 1..Len(order) : order[i] = a
            THEN CHOOSE i \in 1..Len(order) : order[i] = a
            ELSE Dead]

Ren(ren, a) == IF a \in Addrs THEN ren[a] ELSE a

RenPtr(ren, p) ==
    IF Ren(ren, p[1]) = Dead THEN <<Dead, 0>> ELSE <<Ren(ren, p[1]), p[2]>>

RenBlk(ren, b) ==
    IF b.kind # "obj" THEN b
    ELSE [b EXCEPT !.slots =
            [i \in 1..Len(b.slots) |->
                    [b.slots[i] EXCEPT !.name = Ren(ren, @),
                                       !.value = Ren(ren, @),
                                       !.sub = Ren(ren, @),
                                       !.sur = RenPtr(ren, @)]]]

Canon(m, order) ==
    LET ren == Renaming(order)
    IN  [a \in Addrs |->
           IF a <= Len(order) THEN RenBlk(ren, m[order[a]]) ELSE FreeBlk]

\* the live blocks of m that cannot be reached from r
Leaks(m, r) == Cardinality(Live(m)) - Len(Order(m, r))

\* ------------------------------------------------------------ the state
VARIABLES
    mem,    \* the heap, as far as it can be reached from root
    root,   \* the root object the caller holds, or NoPtr
    fault,  \* the execution has left the defined behaviour of C
    str,    \* the byte string given to the string functions of the codec
    out     \* what the last of them returned

vars == <<mem, root, fault, str, out>>

EmptyHeap == [a \in Addrs |-> FreeBlk]
NoOut == [op |-> "none"]

\* the call with result r has been made; newroot is the caller's root after it
Step(r, newroot) ==
    /\ UNCHANGED <<str, out>>
    /\ IF r.f
       THEN /\ fault' = TRUE
            /\ mem' = EmptyHeap
            /\ root' = NoPtr
       ELSE /\ fault' = FALSE
            /\ mem' = Canon(r.m, Order(r.m, newroot))
            /\ root' = IF newroot = NoPtr THEN NoPtr ELSE <<1, 1>>

Init ==
    /\ mem = EmptyHeap
    /\ root = NoPtr
    /\ fault = FALSE
    /\ str = <<>>
    /\ out = NoOut

\* the allocator was told how, and the allocation did a: every outcome of a
\* call is taken once (an allocation that is not reached has no choice)
Told(how, a) ==
    \/ how = "fail" /\ a \in {"fail", "none"}
    \/ how = "same" /\ a = "same"
    \/ how = "move" /\ a \in {"move", "new"}

\* what the allocator may do: anything, or anything but fail
AllocOutcome == {"fail", "same", "move"}
AllocOk == {"same", "move"}

\* The actions take the set H of what the allocator may do and the bound
\* max on the objects of the tree.
Create(H) ==
    /\ ~fault
    /\ root = NoPtr
    /\ \E name \in Names, h1, h2 \in H \ {"same"} :
         LET r == ode_create(mem, name, h1, h2)
         IN  /\ Told(h1, r.a1) /\ Told(h2, r.a2)
             /\ Step(r, r.ret)

Add(H, max) ==
    /\ ~fault
    /\ Cardinality(Handles(mem, root)) < max
    /\ \E to \in Handles(mem, root), name \in Names,
          ha \in H, hn \in H \ {"same"} :
         LET r == ode_add(mem, to, name, ha, hn)
         IN  /\ Told(ha, r.a1) \/ (r.a1 = "none" /\ ha = "same")
             /\ Told(hn, r.a2) \/ (r.a2 = "none" /\ hn = "move")
             /\ Step(r, root)

Mod(H) ==
    /\ ~fault
    /\ \E obj \in Handles(mem, root), type \in {ODE_NAME, ODE_VALUE},
          how \in H :
         \E new \in (IF type = ODE_NAME THEN Names ELSE Values) :
            LET r == ode_mod(mem, obj, type, new, how)
            IN  /\ Told(how, r.a1) \/ (r.a1 = "none" /\ how = "same")
                /\ Step(r, root)

Del(H) ==
    /\ ~fault
    /\ \E obj \in Handles(mem, root), how \in H :
         LET r == ode_del(mem, obj, how)
         IN  /\ Told(how, r.a1) \/ (r.a1 = "none" /\ how = "same")
             /\ Step(r, IF obj = root /\ r.ok THEN NoPtr ELSE root)

Zero ==
    /\ ~fault
    /\ \E obj \in Handles(mem, root) :
         Step(ode_zero(mem, obj, MaxAddr), root)

Deserial ==
    /\ ~fault
    /\ root = NoPtr
    /\ \E serial \in Inputs, failAt \in 0..MaxFail :
         LET r == ode_deserial(mem, serial, failAt)
         IN  /\ failAt <= r.n
             /\ Step(r, r.ret)

Next ==
    \/ Create(AllocOutcome)
    \/ Add(AllocOutcome, MaxNodes)
    \/ Mod(AllocOutcome)
    \/ Del(AllocOutcome)
    \/ Zero
    \/ Deserial

Spec == Init /\ [][Next]_vars

\* the tree engine with an allocator that never fails
NextEngine ==
    \/ Create(AllocOk)
    \/ Add(AllocOk, MaxEngineNodes)
    \/ Mod(AllocOk)
    \/ Del(AllocOk)

SpecEngine == Init /\ [][NextEngine]_vars

\* the string functions of the text codec, each applied to a byte string
InitText ==
    /\ mem = EmptyHeap
    /\ root = NoPtr
    /\ fault = FALSE
    /\ str \in Strs
    /\ out = NoOut

Nspec ==
    /\ out' = [op |-> "nspec", n |-> nspec(str)]
    /\ UNCHANGED <<mem, root, fault, str>>

SerialStr ==
    /\ out' = [op |-> "serial_str", bytes |-> serial_str(str)]
    /\ UNCHANGED <<mem, root, fault, str>>

\* deserial_str on what serial_str wrote
DeserialStr ==
    /\ out.op = "serial_str"
    /\ LET d == deserial_str(EmptyHeap, out.bytes, 1, Len(out.bytes), "move")
       IN  out' = [op |-> "deserial_str", ok |-> d.pos # 0, pos |-> d.pos,
                   bytes |-> IF d.pos = 0 THEN <<>>
                             ELSE Bytes(d.m, d.p, d.len)]
    /\ UNCHANGED <<mem, root, fault, str>>

NextText == Nspec \/ SerialStr \/ DeserialStr

SpecText == InitText /\ [][NextText]_vars

\* ------------------------------------------------------------ what a caller sees
\* the content of an object that cannot be read
Bad == [bad |-> TRUE]

RECURSIVE TreeOf(_, _)
\* name, value (<<>>: none) and subordinates in storage order
TreeOf(m, p) ==
    LET O == Rec(m, p)
    IN  [name |-> Bytes(m, O.name, O.name_len),
         value |-> IF O.value = Null THEN <<>>
                   ELSE <<Bytes(m, O.value, O.value_len)>>,
         kids |-> IF O.value # Null \/ O.sub = Null THEN <<>>
                  ELSE [i \in 1..O.nsub |-> TreeOf(m, <<O.sub, i>>)]]

Tree(m, p) == IF CanSerial(m, p, MaxAddr) THEN TreeOf(m, p) ELSE Bad

\* the subordinates of the object at p, where its array can be read
Kids(m, p) ==
    LET O == Rec(m, p)
    IN  IF O.sub # Null /\ IsObj(m, O.sub) /\ O.nsub <= Len(m[O.sub].slots)
        THEN {<<O.sub, i>> : i \in 1..O.nsub}
        ELSE {}

\* every subordinate of the object at c names c as its superior
SurOk(m, c) ==
    Readable(m, c) /\ \A g \in Kids(m, c) : Rec(m, g).sur = c

\* no two subordinates of one object have the same name
Unique(m, r) ==
    \A P \in Handles(m, r) :
       Readable(m, P) =>
          \A c, d \in Kids(m, P) :
             (c # d /\ CanSerial(m, c, MaxAddr) /\ CanSerial(m, d, MaxAddr))
                => TreeOf(m, c).name # TreeOf(m, d).name

\* no object has a value and subordinates
Exclusive(m, r) ==
    \A p \in Handles(m, r) :
       Readable(m, p) => ~(Rec(m, p).value # Null /\ Rec(m, p).sub # Null)

\* ------------------------------------------------------------ C1
\* C1: a failed Insert (ode_add) is atomic.  In every state, for every call
\* of ode_add in which an allocation fails (growing or allocating the array,
\* or copying the name; the growth having relocated the array or not), the
\* call reports failure, the tree is as before, the parent has its count and
\* a live array, and every subordinate of its subordinates still names its
\* superior.
C1_AddAtomic ==
    ~fault =>
      \A to \in Handles(mem, root), name \in Names,
         ha \in AllocOutcome, hn \in {"fail", "move"} :
         LET r == ode_add(mem, to, name, ha, hn)
         IN  (r.a1 = "fail" \/ r.a2 = "fail") =>
               /\ ~r.f /\ ~r.ok
               /\ Tree(r.m, root) = Tree(mem, root)
               /\ Rec(r.m, to).nsub = Rec(mem, to).nsub
               /\ Rec(r.m, to).sub # Null => IsObj(r.m, Rec(r.m, to).sub)
               /\ \A i \in 1..Cardinality(Kids(mem, to)) :
                    SurOk(mem, <<Rec(mem, to).sub, i>>)
                       => SurOk(r.m, <<Rec(r.m, to).sub, i>>)

\* ------------------------------------------------------------ C2
\* C2: after a successful Delete (ode_del) of a subordinate that is not the
\* last of n > 1 in storage order, whether the shrinking reallocation keeps
\* the address or not, every other subordinate is there with its name, value
\* and subordinates, and every subordinate of the object moved into the
\* vacated slot names that slot as its superior.
C2_DelKeepsSiblings ==
    ~fault =>
      \A P \in Handles(mem, root), how \in AllocOk :
         \A obj \in Kids(mem, P) :
            LET S == Rec(mem, P)
                r == ode_del(mem, obj, how)
                S2 == Rec(r.m, P)
            IN  (/\ S.nsub > 1
                 /\ obj # LAST_SUB(S)
                 /\ Rec(mem, obj).sur = P
                 /\ ~r.f /\ r.ok) =>
                   /\ S2.nsub = S.nsub - 1
                   /\ \A c \in Kids(mem, P) \ {obj} :
                        \E d \in Kids(r.m, P) : Tree(r.m, d) = Tree(mem, c)
                   /\ Tree(r.m, <<S2.sub, obj[2]>>) = Tree(mem, LAST_SUB(S))
                   /\ SurOk(r.m, <<S2.sub, obj[2]>>)

\* ------------------------------------------------------------ C3
\* C3: text round trip.  For every tree built by Create, Insert, Rename,
\* Set-payload and Delete, ode_deserial of what ode_serial wrote succeeds and
\* gives a tree with the same names, values and subordinates in the same
\* order.
C3_RoundTrip ==
    (~fault /\ root # NoPtr /\ CanSerial(mem, root, MaxAddr)) =>
       LET s == ode_serial(mem, root, "move")
           d == ode_deserial(EmptyHeap, s.bytes, 0)
       IN  /\ ~s.f /\ s.ok
           /\ ~d.f /\ d.ok
           /\ Tree(d.m, d.ret) = Tree(mem, root)

\* ------------------------------------------------------------ C4
\* C4: whenever ode_deserial returns failure, for a format error or for an
\* allocation that failed, no block allocated by the call is live and none
\* was freed twice.
C4_DeserialFreesAll ==
    (~fault /\ root = NoPtr) =>
       \A serial \in Inputs, failAt \in 0..MaxFail :
          LET r == ode_deserial(mem, serial, failAt)
          IN  ~r.ok => (~r.f /\ Live(r.m) = Live(mem))

\* ------------------------------------------------------------ C5
\* C5: Rename (ode_mod with ODE_NAME) of an object with a superior, the
\* allocation succeeding, fails and changes nothing exactly when a different
\* subordinate of that superior has the new name; in every other case (a root
\* object, a name no sibling has, the object's own name) it succeeds and the
\* object has the new name.
C5_RenameRefusal ==
    ~fault =>
      \A obj \in Handles(mem, root), new \in Names, how \in AllocOk :
         LET O == Rec(mem, obj)
             r == ode_mod(mem, obj, ODE_NAME, new, how)
             taken == /\ O.sur # NoPtr
                      /\ \E c \in Kids(mem, O.sur) \ {obj} :
                            TreeOf(mem, c).name = new
         IN  (/\ CanSerial(mem, root, MaxAddr)
              /\ Readable(mem, obj)
              /\ O.sur # NoPtr => (Readable(mem, O.sur)
                                    /\ obj \in Kids(mem, O.sur))) =>
               /\ ~r.f
               /\ (r.ok <=> ~taken)
               /\ (r.ok => TreeOf(r.m, obj).name = new)
               /\ (~r.ok => Tree(r.m, root) = Tree(mem, root))

\* ------------------------------------------------------------ C6
\* the length of the run of STR_SPEC that follows position i of s
RunAfter(s, i) == SpecRun(s, i + 1, Len(s) + 1)
\* does a STR_SEP followed by F STR_SPEC occur in s
Closes(s, F) == \E i \in 1..Len(s) : s[i] = STR_SEP /\ RunAfter(s, i) >= F
\* 0 without a STR_SEP, otherwise 1 + the longest run that follows one
Fence(s) ==
    LET Q == {i \in 1..Len(s) : s[i] = STR_SEP}
    IN  IF Q = {} THEN 0
        ELSE 1 + CHOOSE n \in {RunAfter(s, i) : i \in Q} :
                   \A i \in Q : RunAfter(s, i) <= n

\* C6: for every byte string, nspec is 0 if the string has no quote and
\* otherwise 1 + the longest run of hashes that follows a quote: the least
\* width whose closing sequence does not occur in the string.
C6_FenceWidth ==
    out.op = "nspec" =>
       /\ out.n = Fence(str)
       /\ ~Closes(str, out.n)
       /\ \A F \in 0..(out.n - 1) : Closes(str, F)

\* ------------------------------------------------------------ C7
\* C7: sibling uniqueness.  In every state reached by Create, Insert, Rename,
\* Set-payload and Delete with allocations that succeed (relocating or not),
\* after every successful Insert and every successful Rename no two
\* subordinates of an object have the same name.
C7_SiblingsUnique ==
    ~fault =>
      /\ \A to \in Handles(mem, root), name \in Names, ha \in AllocOk :
            LET r == ode_add(mem, to, name, ha, "move")
            IN  (~r.f /\ r.ok) => Unique(r.m, root)
      /\ \A obj \in Handles(mem, root), new \in Names, how \in AllocOk :
            LET r == ode_mod(mem, obj, ODE_NAME, new, how)
            IN  (~r.f /\ r.ok) => Unique(r.m, root)

\* ------------------------------------------------------------ C8
\* C8: exclusivity.  In every state reached by Create, Insert, Set-payload,
\* Rename, Delete, Wipe and successful text decode (with any allocation
\* failing or not), no object has a value and subordinates at the same time.
C8_Exclusive == ~fault => Exclusive(mem, root)

\* an object with subordinates, one of which has a value: Set-payload on the
\* first and Insert under the second are refused
C8_Witness ==
    /\ ~fault
    /\ root # NoPtr
    /\ Rec(mem, root).sub # Null
    /\ \E c \in Kids(mem, root) :
          /\ Rec(mem, c).value # Null
          /\ \A name \in Names : ~ode_add(mem, c, name, "move", "move").ok
    /\ \A v \in Values : ~ode_mod(mem, root, ODE_VALUE, v, "move").ok

\* ------------------------------------------------------------ C9
Decodes(serial) == ode_deserial(EmptyHeap, serial, 0).ok

\* a fence that is never closed
Unclosed ==
    {<<STR_SEP>> \o n \o <<OBJ_SEP>> : n \in Names}
    \cup {<<STR_SPEC, STR_SEP>> \o n \o <<STR_SEP, OBJ_SEP>> : n \in Names}
\* a byte other than ':' '|' ';' after a name
BadByte == {serial_str(n) \o <<CH_A, OBJ_SEP>> : n \in Names}
\* a value that no ';' follows
NoObjSep ==
    UNION {{serial_str(n) \o <<FIELD_SEP>> \o serial_str(v),
            serial_str(n) \o <<FIELD_SEP>> \o serial_str(v) \o <<CH_A>>}
           : n \in Names, v \in Names}
\* a run of '|' that declares two subordinates where there is one
FewSubs ==
    {serial_str(n) \o <<OBJ_SPEC, OBJ_SPEC>> \o serial_str(c) \o <<OBJ_SEP>>
     : n \in Names, c \in Names}

\* C9: ode_deserial returns failure for every malformed input: a proper
\* prefix of what ode_serial wrote for a tree, an unclosed fence, a byte that
\* is none of ':' '|' ';' after a name, a value that no ';' follows, a run of
\* '|' that declares more subordinates than there are.
C9_MalformedFails ==
    /\ \A serial \in Unclosed \cup BadByte \cup NoObjSep \cup FewSubs :
          ~Decodes(serial)
    /\ (~fault /\ root # NoPtr /\ CanSerial(mem, root, MaxAddr)) =>
          LET s == ode_serial(mem, root, "move").bytes
          IN  \A n \in 1..(Len(s) - 1) : ~Decodes(SubSeq(s, 1, n))

\* ------------------------------------------------------------ C10
\* C10: an Insert (ode_add) whose growth relocates the array.  In every
\* state, a call that grows the array of an object with subordinates to a new
\* address and does not return failure stays in defined behaviour, and
\* afterwards every subordinate that was there has its name, value,
\* subordinates and position, each of their subordinates names the relocated
\* slot as its superior, the new object is the last one, with the name, no
\* value, no subordinates and its superior set, and the count is one more.
C10_AddRelocates ==
    ~fault =>
      \A to \in Handles(mem, root), name \in Names :
         LET T == Rec(mem, to)
             r == ode_add(mem, to, name, "move", "move")
             T2 == Rec(r.m, to)
         IN  (/\ Readable(mem, to)
              /\ T.sub # Null
              /\ r.f \/ r.ok) =>
               /\ ~r.f
               /\ T2.nsub = T.nsub + 1
               /\ \A i \in 1..T.nsub :
                    /\ Tree(r.m, <<T2.sub, i>>) = Tree(mem, <<T.sub, i>>)
                    /\ SurOk(r.m, <<T2.sub, i>>)
               /\ r.ret = <<T2.sub, T2.nsub>>
               /\ LET N == Rec(r.m, r.ret)
                  IN  /\ N.sur = to
                      /\ N.value = Null /\ N.sub = Null /\ N.nsub = 0
                      /\ N.name_len = Len(name)
                      /\ IsStr(r.m, N.name)
                      /\ Bytes(r.m, N.name, N.name_len) = name

\* ------------------------------------------------------------ C11
\* C11: Rename, Set-payload and Delete are atomic under allocation failure.
\* In every state, when the allocation or reallocation inside set_str fails,
\* ode_mod reports failure and leaves the heap as it was (the old name and
\* value, their bytes, lengths and presence); when the shrinking reallocation
\* of ode_del fails, ode_del reports failure and leaves the heap as it was
\* (the array with its subordinates in the original order, the object back in
\* its slot, nothing freed).
C11_FailureAtomic ==
    ~fault =>
      /\ \A obj \in Handles(mem, root), type \in {ODE_NAME, ODE_VALUE} :
            \A new \in (IF type = ODE_NAME THEN Names ELSE Values) :
               LET r == ode_mod(mem, obj, type, new, "fail")
               IN  r.a1 = "fail" =>
                     /\ ~r.f /\ ~r.ok
                     /\ r.m = mem
                     /\ Tree(r.m, root) = Tree(mem, root)
      /\ \A obj \in Handles(mem, root) :
            LET r == ode_del(mem, obj, "fail")
            IN  r.a1 = "fail" =>
                  /\ ~r.f /\ ~r.ok
                  /\ r.m = mem
                  /\ Live(r.m) = Live(mem)

\* an object with a value that is not the last of two subordinates: the
\* allocations of its Rename, of its Set-payload and of its Delete fail
C11_Witness ==
    /\ ~fault
    /\ root # NoPtr
    /\ Readable(mem, root)
    /\ \E obj \in Kids(mem, root) :
          /\ Rec(mem, root).nsub > 1
          /\ obj # LAST_SUB(Rec(mem, root))
          /\ Rec(mem, obj).value # Null
          /\ ode_del(mem, obj, "fail").a1 = "fail"
          /\ \E n \in Names : ode_mod(mem, obj, ODE_NAME, n, "fail").a1 = "fail"
          /\ \E n \in Names :
                ode_mod(mem, obj, ODE_VALUE, n, "fail").a1 = "fail"

\* ------------------------------------------------------------ C12
RECURSIVE Owned(_, _, _)
\* the blocks the object at p and its subordinates own: names, values and
\* arrays of subordinates
Owned(m, p, fuel) ==
    IF fuel = 0 \/ ~Readable(m, p) THEN {}
    ELSE LET O == Rec(m, p)
         IN  ({O.name} \ {Null})
             \cup (IF O.value # Null THEN {O.value}
                   ELSE IF O.sub = Null THEN {}
                   ELSE {O.sub} \cup UNION {Owned(m, c, fuel - 1)
                                            : c \in Kids(m, p)})

\* C12: resource discipline on the destroy path.  In every state reached by
\* successful Create, Insert, Rename, Set-payload and Delete, a Delete
\* (ode_del) that does not return failure stays in defined behaviour (no
\* block is freed twice), frees every name, value and array the deleted
\* object and its subordinates own, frees nothing else but the array that
\* held the object (released or relocated), and after the Delete of the root
\* no block is live.
C12_DeleteFreesSubtree ==
    ~fault =>
      \A obj \in Handles(mem, root), how \in AllocOk :
         LET r == ode_del(mem, obj, how)
             gone == Live(mem) \ Live(r.m)
         IN  (Readable(mem, obj) /\ (r.f \/ r.ok)) =>
               /\ ~r.f
               /\ Owned(mem, obj, MaxAddr) \subseteq gone
               /\ gone \subseteq Owned(mem, obj, MaxAddr) \cup {obj[1]}
               /\ obj = root => Live(r.m) = {}

\* ------------------------------------------------------------ C13
\* the call with result r was refused: it reported failure, asked nothing of
\* the allocator and left the heap, so every name, value, array, order and
\* superior, as it was
Refused(m, r) ==
    /\ ~r.f /\ ~r.ok
    /\ r.a1 = "none" /\ r.a2 = "none"
    /\ r.m = m

\* the subordinates of P that have the name
HasName(m, P, name) ==
    {c \in Kids(m, P) : CanSerial(m, c, MaxAddr) /\ TreeOf(m, c).name = name}

\* Set-payload on an object that has subordinates is refused
SetValueRefused ==
    \A obj \in Handles(mem, root), v \in Values, how \in AllocOutcome :
       (Readable(mem, obj) /\ Rec(mem, obj).sub # Null)
          => Refused(mem, ode_mod(mem, obj, ODE_VALUE, v, how))

\* Insert into an object that has a value, or of a name a subordinate has, is
\* refused
AddRefused ==
    \A to \in Handles(mem, root), name \in Names,
       ha \in AllocOutcome, hn \in {"fail", "move"} :
       (/\ Readable(mem, to)
        /\ Rec(mem, to).value # Null \/ HasName(mem, to, name) # {})
          => Refused(mem, ode_add(mem, to, name, ha, hn))

\* Rename to a name another subordinate of the same object has is refused
RenameRefused ==
    \A P \in Handles(mem, root), new \in Names, how \in AllocOutcome :
       Readable(mem, P) =>
          \A obj \in Kids(mem, P) :
             (Readable(mem, obj) /\ HasName(mem, P, new) \ {obj} # {})
                => Refused(mem, ode_mod(mem, obj, ODE_NAME, new, how))

\* C13: precondition violations change nothing.  In every state, Set-payload
\* on an object with subordinates, Insert into an object with a value, Insert
\* of a name a subordinate already has, and Rename to a name another
\* subordinate of the same object has each report failure, allocate,
\* reallocate and free nothing, and leave the heap as it was.
C13_RefusalsChangeNothing ==
    ~fault => (SetValueRefused /\ AddRefused /\ RenameRefused)

\* ------------------------------------------------------------ C14
\* C14: Delete (ode_del) of the only subordinate of an object.  In every
\* state, for every object with exactly one subordinate, the Delete of that
\* subordinate succeeds, frees what the subordinate and its subordinates own
\* and the array that held it, and leaves the superior with no subordinates:
\* its count is 0, ode_iter returns NULL, ode_get1 finds nothing, and a
\* Set-payload and an Insert on it then succeed.
C14_DelOnlyChild ==
    ~fault =>
      \A P \in Handles(mem, root), how \in AllocOk :
         (Readable(mem, P) /\ Rec(mem, P).sub # Null /\ Rec(mem, P).nsub = 1)
            => LET obj == <<Rec(mem, P).sub, 1>>
                   r == ode_del(mem, obj, how)
               IN  /\ ~r.f /\ r.ok
                   /\ Owned(mem, obj, MaxAddr) \cup {obj[1]}
                         \subseteq Live(mem) \ Live(r.m)
                   /\ Rec(r.m, P).nsub = 0
                   /\ Rec(r.m, P).sub = Null
                   /\ ode_iter(r.m, P, NoPtr) = [f |-> FALSE, ret |-> NoPtr]
                   /\ \A name \in Names :
                         ode_get1(r.m, P, name) = [f |-> FALSE, ret |-> NoPtr]
                   /\ \A v \in Values :
                         ode_mod(r.m, P, ODE_VALUE, v, "move").ok
                   /\ \A name \in Names :
                         ode_add(r.m, P, name, "move", "move").ok

\* ------------------------------------------------------------ C15
RECURSIVE Preorder(_, _, _)
\* the object at p and its subordinates, an object before its subordinates
\* and these in storage order
Preorder(m, p, fuel) ==
    IF fuel = 0 \/ ~Readable(m, p) THEN <<p>>
    ELSE LET O == Rec(m, p)
             n == IF O.value = Null /\ O.sub # Null /\ IsObj(m, O.sub)
                  THEN Min(O.nsub, Len(m[O.sub].slots)) ELSE 0
             F[i \in 0..n] ==
                IF i = 0 THEN <<p>>
                ELSE F[i - 1] \o Preorder(m, <<O.sub, i>>, fuel - 1)
         IN  F[n]

\* the calls of zero_fn the object at p is due: its name over name_len bytes,
\* then name_len, then, with a value, the value over value_len bytes and
\* value_len
Due(m, p) ==
    LET O == Rec(m, p)
    IN  <<ZeroBuf(O.name, O.name_len), ZeroLen(p, "name_len")>>
        \o (IF O.value = Null THEN <<>>
            ELSE <<ZeroBuf(O.value, O.value_len), ZeroLen(p, "value_len")>>)

\* the object at p is wiped in m2: lengths 0, the bytes that were counted 0
Wiped(m, m2, p) ==
    LET O == Rec(m, p)
        O2 == Rec(m2, p)
    IN  /\ O2.name_len = 0
        /\ Bytes(m2, O.name, O.name_len) = Rep(0, O.name_len)
        /\ O.value # Null =>
             /\ O2.value_len = 0
             /\ Bytes(m2, O.value, O.value_len) = Rep(0, O.value_len)

\* the object at p has in m2 the buffers, the array, the count and the
\* superior it has in m
SameShape(m, m2, p) ==
    LET O == Rec(m, p)
        O2 == Rec(m2, p)
    IN  /\ O2.name = O.name /\ O2.value = O.value
        /\ O2.sub = O.sub /\ O2.nsub = O.nsub /\ O2.sur = O.sur

\* C15: Wipe (ode_zero).  In every state and for every object, ode_zero stays
\* in defined behaviour; it calls zero_fn object by object, an object before
\* its subordinates and these in storage order, for each on the name buffer
\* over the stored length and then on the length, and likewise for a value;
\* afterwards the lengths are 0 and the counted bytes zeroed, no block was
\* freed or allocated, every object has its buffers, array, count and
\* superior, and a Delete of the object then succeeds and frees everything
\* the object and its subordinates own.
C15_ZeroKeepsStructure ==
    ~fault =>
      \A obj \in Handles(mem, root) :
         LET r == ode_zero(mem, obj, MaxAddr)
             nodes == Preorder(mem, obj, MaxAddr)
             calls == zero_calls(mem, obj, MaxAddr)
             due[i \in 0..Len(nodes)] ==
                IF i = 0 THEN <<>> ELSE due[i - 1] \o Due(mem, nodes[i])
         IN  Readable(mem, obj) =>
               /\ ~r.f
               /\ calls = due[Len(nodes)]
               /\ Live(r.m) = Live(mem)
               /\ \A i \in 1..Len(nodes) :
                     /\ Wiped(mem, r.m, nodes[i])
                     /\ SameShape(mem, r.m, nodes[i])
               /\ \A how \in AllocOk :
                     LET d == ode_del(r.m, obj, how)
                     IN  /\ ~d.f /\ d.ok
                         /\ Owned(r.m, obj, MaxAddr)
                               \subseteq Live(r.m) \ Live(d.m)

\* ------------------------------------------------------------ C16
RECURSIVE Walk(_, _, _, _)
\* what ode_iter returns from the cursor pos on, each result fed back as the
\* cursor, up to the first NULL
Walk(m, P, pos, fuel) ==
    LET r == ode_iter(m, P, pos).ret
    IN  IF fuel = 0 \/ r = NoPtr THEN <<>>
        ELSE <<r>> \o Walk(m, P, r, fuel - 1)

\* C16: Iterate (ode_iter).  In every state and for every object P with n
\* subordinates (n = 0 without an array), the walk from a NULL cursor returns
\* the n subordinates in storage order, each once and each an object that can
\* be read, and then NULL; with n = 0 the first call returns NULL; a cursor
\* that is not in the array of P (another object, P itself, the slot after
\* the last) yields NULL.
C16_IterWalk ==
    ~fault =>
      \A P \in Handles(mem, root) :
         Readable(mem, P) =>
            LET O == Rec(mem, P)
                n == IF O.sub = Null THEN 0 ELSE O.nsub
                walk == Walk(mem, P, NoPtr, MaxAddr)
            IN  /\ walk = [i \in 1..n |-> <<O.sub, i>>]
                /\ \A i \in 1..Len(walk) : Readable(mem, walk[i])
                /\ n = 0 => ode_iter(mem, P, NoPtr).ret = NoPtr
                /\ n > 0 => ode_iter(mem, P, <<O.sub, n>>).ret = NoPtr
                /\ \A pos \in Handles(mem, root) \cup {<<O.sub, n + 1>>} :
                      (pos # NoPtr /\ ~(pos[1] = O.sub /\ pos[2] \in 1..n))
                         => ode_iter(mem, P, pos).ret = NoPtr

\* ------------------------------------------------------------ C17
\* the names given to ode_get: the names of the engine and the empty string
Args == Names \cup {<<>>}
\* the sequences of at most two of them
Paths == UNION {[1..n -> Args] : n \in 0..2}

RECURSIVE GetFold(_, _, _)
\* Lookup-one (ode_get1) folded over the names from the object cur; it stops
\* at the first name that is not found
GetFold(m, cur, names) ==
    IF names = <<>> THEN [f |-> FALSE, ret |-> cur]
    ELSE IF ~Readable(m, cur) THEN [f |-> TRUE, ret |-> NoPtr]
    ELSE LET h == ode_get1(m, cur, Head(names))
         IN  IF h.f \/ h.ret = NoPtr THEN h
             ELSE GetFold(m, h.ret, Tail(names))

\* C17: Lookup-path (ode_get).  In every state, for every object and every
\* sequence of names for which the fold of Lookup-one (ode_get1) is defined,
\* ode_get returns what the fold returns: the start object for the empty
\* sequence, and NULL as soon as a name is not found or the current object
\* has no subordinates, whatever names follow.
C17_GetIsFold ==
    ~fault =>
      \A from \in Handles(mem, root), names \in Paths :
         LET g == ode_get(mem, from, names)
             h == GetFold(mem, from, names)
         IN  ~h.f =>
               /\ ~g.f
               /\ g.ret = h.ret
               /\ names = <<>> => g.ret = from
               /\ (names # <<>> /\ ode_get1(mem, from, Head(names)).ret = NoPtr)
                     => g.ret = NoPtr

\* an object whose subordinate has a subordinate: a path of two names finds
\* the latter, and a path whose first name is not found returns NULL
C17_Witness ==
    /\ ~fault
    /\ root # NoPtr
    /\ \E names \in Paths :
          /\ Len(names) = 2
          /\ ~ode_get(mem, root, names).f
          /\ ode_get(mem, root, names).ret \notin {NoPtr, root}
          /\ Rec(mem, ode_get(mem, root, names).ret).sur # root
    /\ \E names \in Paths :
          /\ Len(names) = 2
          /\ ode_get(mem, root, names) = [f |-> FALSE, ret |-> NoPtr]
          /\ ode_get1(mem, root, names[1]).ret = NoPtr

\* ------------------------------------------------------------ C19
\* C19: after a successful Delete (ode_del) of one of n > 1 subordinates the
\* array of the superior is an allocation of exactly n - 1 records: it holds
\* n - 1 slots and no slot of it is cut short.
C19_ShrunkByOne ==
    ~fault =>
      \A P \in Handles(mem, root), how \in AllocOk :
         \A obj \in Kids(mem, P) :
            LET S == Rec(mem, P)
                r == ode_del(mem, obj, how)
                a == Rec(r.m, P).sub
            IN  (/\ S.nsub > 1
                 /\ Rec(mem, obj).sur = P
                 /\ ~r.f /\ r.ok) =>
                   /\ IsObj(r.m, a)
                   /\ Len(r.m[a].slots) = S.nsub - 1
                   /\ r.m[a].short = 0

\* ------------------------------------------------------------ C20
\* buffers that declare two subordinates under one object, of the same name
\* or not
TwoSubs ==
    {serial_str(n) \o <<OBJ_SPEC, OBJ_SPEC>> \o serial_str(c) \o <<OBJ_SEP>>
        \o serial_str(d) \o <<OBJ_SEP>> : n \in Names, c \in Names, d \in Names}

\* C20: every tree a successful text decode (ode_deserial) returns has
\* unique sibling names: for every buffer, if ode_deserial succeeds then no
\* two subordinates of an object of the tree have the same name.
C20_DecodedUnique ==
    \A serial \in Inputs \cup TwoSubs :
       LET d == ode_deserial(EmptyHeap, serial, 0)
       IN  (~d.f /\ d.ok) => Unique(d.m, d.ret)


\* ---------------------------------------------------------------- C21
\* the buffers given to the decoder: the token sequences, the strings with
\* fences of any shape, and those followed by a delimiter
ReadBufs ==
    Inputs \cup TwoSubs \cup Strs
    \cup {s \o <<OBJ_SEP>> : s \in Strs}
    \cup {s \o <<FIELD_SEP>> \o s \o <<OBJ_SEP>> :
            s \in {t \in Strs : Len(t) <= 3}}

\* C21: for every buffer and every size, 0 included, and whichever allocation
\* fails, ode_deserial reads only the bytes at the positions 1..size of the
\* buffer (the offsets [0, size)), while scanning fences and delimiters and
\* while copying string content; the bytes of the buffer after size are
\* never read.
C21_ReadsInside ==
    (~fault /\ root = NoPtr) =>
      \A buf \in ReadBufs : \A size \in 0..Len(buf) : \A failAt \in 0..MaxFail :
        reads_ode_deserial(mem, buf, size, failAt) \subseteq 1..size

\* the decoder has read a buffer up to its very last byte looking for the
\* closing fence and refused it, and has read all of another and built the
\* object
C21_Witness ==
    /\ ~fault /\ root = NoPtr
    /\ LET cut == <<STR_SPEC, STR_SEP, CH_A, STR_SEP>>
       IN  /\ cut \in ReadBufs
           /\ reads_ode_deserial(mem, cut, Len(cut), 0) = 1..Len(cut)
           /\ ~ode_deserial(mem, cut, 0).ok
    /\ LET whole == <<STR_SPEC, STR_SEP, CH_A, STR_SEP, STR_SPEC, OBJ_SEP>>
       IN  /\ whole \in ReadBufs
           /\ reads_ode_deserial(mem, whole, Len(whole), 0) = 1..Len(whole)
           /\ ode_deserial(mem, whole, 0).ok
           /\ reads_ode_deserial(mem, whole, 4, 0) = 1..4


\* ---------------------------------------------------------------- C22
\* the objects of the tree that have a value, subordinates, neither
WithValue(m, r) == {P \in Handles(m, r) : Rec(m, P).value # Null}
WithSubs(m, r) ==
    {P \in Handles(m, r) : Rec(m, P).value = Null /\ Rec(m, P).sub # Null}
Bare(m, r) ==
    {P \in Handles(m, r) : Rec(m, P).value = Null /\ Rec(m, P).sub = Null}

\* C22: for every tree (every object of every state whose names, values and
\* arrays can be read), the size size_as_serial computes, which ode_serial
\* allocates and returns in serial_size, is the number of bytes mkserial
\* writes: the positions written are the positions 1..size of the buffer,
\* each written once and none outside, and mkserial ends right after the
\* last; for objects with a value, with subordinates and with neither.
C22_SizeIsWritten ==
    ~fault =>
      \A P \in Handles(mem, root) :
         CanSerial(mem, P, MaxAddr) =>
            LET size == size_as_serial(mem, P)
                k == writes_mkserial(mem, 1, P)
            IN  /\ Len(k.w) = size
                /\ {k.w[i] : i \in 1..Len(k.w)} = 1..size
                /\ k.dest = size + 1
                /\ Len(mkserial(mem, P)) = size
                /\ ~ode_serial(mem, P, "move").f

\* a tree of three objects, one with subordinates, one with a value that
\* needs a fence and one with neither, has been written in as many bytes as
\* size_as_serial computed
C22_Witness ==
    /\ ~fault /\ root # NoPtr /\ CanSerial(mem, root, MaxAddr)
    /\ root \in WithSubs(mem, root)
    /\ WithValue(mem, root) # {} /\ Bare(mem, root) # {}
    /\ \E P \in WithValue(mem, root) :
          nspec(Bytes(mem, Rec(mem, P).value, Rec(mem, P).value_len)) > 0
    /\ ode_serial(mem, root, "move").ok
    /\ Len(ode_serial(mem, root, "move").bytes) = size_as_serial(mem, root)
    /\ size_as_serial(mem, root) > 3 * AS_SERIAL_LEN(1, 0)

====
